---- MODULE Spec2Model ----
(***************************************************************************)
(* A model of server.js: an Express application whose handlers read and    *)
(* write a MongoDB document store through Mongoose models.                 *)
(*                                                                         *)
(* A handler runs synchronously up to its next `await` of a store call;    *)
(* the store executes calls one at a time, so the steps of the model are   *)
(* the store calls together with the handler code that follows each of     *)
(* them.  bcrypt calls are awaited too, but they touch no shared state and *)
(* are folded into the step of the store call that precedes them.          *)
(***************************************************************************)
EXTENDS Integers, FiniteSets, Sequences, TLC

\* ObjectIds the id generator hands out in one run: 1 .. MaxId.
MaxId == 2
\* Largest reading of the wall clock.
MaxClock == 2

\* Client connections: at most one request in flight on each.
Procs == {"c1", "c2"}

VARIABLES
    students,        \* documents of model Student      (src 73)
    teachers,        \* documents of model Teacher      (src 74)
    supportStaff,    \* documents of model SupportStaff (src 75)
    db,              \* Lesson, Subscription, GeneralMessage, Book collections
    paymentMethods,  \* documents of model PaymentMethod (src 149)
    nextId,          \* next ObjectId to be generated
    now,             \* wall clock (Date.now)
    storeUp,         \* the store answers calls (FALSE: every call rejects)
    frames,          \* per connection: the handler in flight with its locals
    resp             \* the last response sent

vars == <<students, teachers, supportStaff, db, paymentMethods,
          nextId, now, storeUp, frames, resp>>

----------------------------------------------------------------------------
\* JavaScript values

Undefined == "<undefined>"

\* `!v` for the values a JSON body field takes here
Falsy(v) == v \in {Undefined, ""}

\* bcrypt.hash(password, 10) and bcrypt.compare(password, hash)
BcryptHash(pw) == [bcrypt |-> pw]

BcryptCompareAny(pw, h) == TRUE

BcryptCompare(pw, h) == h.bcrypt = pw

----------------------------------------------------------------------------
\* Frames and responses

NoLoc == [none |-> TRUE]

Idle == [h |-> "idle", pc |-> "idle", req |-> NoLoc, loc |-> NoLoc]

NoBody == [none |-> TRUE]

Message(kind) == [message |-> kind]

\* a response, with the request it answers
Response(h, req, status, out) == [h |-> h, req |-> req, status |-> status, out |-> out]

\* res.status(..).json(..) / .send(): the handler returns
Respond(p, h, status, out) ==
    /\ resp' = Response(h, frames[p].req, status, out)
    /\ frames' = [frames EXCEPT ![p] = Idle]

\* the handler awaits its next store call
Await(p, h, pc, req, loc) ==
    /\ frames' = [frames EXCEPT ![p] = [h |-> h, pc |-> pc, req |-> req, loc |-> loc]]
    /\ UNCHANGED resp

\* A promise rejected inside an async handler that has no try/catch.
\* Express 4 never learns of it and sends nothing; Express 5 forwards it to
\* the default error handler, which answers 500.
UnhandledOutcomes == {"hung", "default500"}

Unhandled(p, h, outcome) ==
    IF outcome = "hung"
    THEN /\ frames' = [frames EXCEPT ![p] = [h |-> h, pc |-> "hung",
                                                req |-> frames[p].req, loc |-> NoLoc]]
         /\ UNCHANGED resp
    ELSE Respond(p, h, 500, Message("default-error-page"))

----------------------------------------------------------------------------
\* The store

GradeLevels == {"first", "second", "third", "all"}

\* a unique index on each of `keys` rejects `doc` (E11000 duplicate key)
NoUniqueIndex(coll, doc, keys) == FALSE

UniqueViolation(coll, doc, keys) ==
    \E d \in coll : \E k \in keys : d[k] = doc[k]

\* Student.findOne({ $or: [{ studentNumber }, { fullName }] })
FindStudentByNameOnly(studentNumber, fullName) ==
    {s \in students : s.fullName = fullName}

FindStudent(studentNumber, fullName) ==
    {s \in students : s.studentNumber = studentNumber \/ s.fullName = fullName}

\* new Student({...}) as the register handler builds it
NewStudent(id, b) ==
    [_id |-> id, type |-> "student",
     fullName |-> b.fullName, studentNumber |-> b.studentNumber,
     parentNumber |-> b.parentNumber, password |-> BcryptHash(b.password),
     gradeLevel |-> b.gradeLevel,
     balance |-> 0, points |-> 0, isBanned |-> FALSE,
     createdAt |-> now, lastActivity |-> now]

\* schema validation of a Student on save (required fields, enum)
ValidStudent(d) ==
    /\ d.fullName # Undefined
    /\ d.gradeLevel \in GradeLevels

\* Teacher.findOne({ teacherCode: code })
FindTeacher(code) == {t \in teachers : t.teacherCode = code}

correctTeacher ==
    [fullName |-> "Mahmoud only", code |-> "HHDV/58HR", phoneNumber |-> "01050747978"]

NewTeacher(id, b) ==
    [_id |-> id, type |-> "teacher",
     fullName |-> b.name, teacherCode |-> b.code, phoneNumber |-> b.phone,
     password |-> BcryptHash("teacher_default_password"),
     createdAt |-> now, lastActivity |-> now]

\* SupportStaff.findOne({ fullName: name, supportCode: code })
FindSupportByCodeOnly(name, code) ==
    {s \in supportStaff : s.supportCode = code}

FindSupport(name, code) ==
    {s \in supportStaff : s.fullName = name /\ s.supportCode = code}

\* doc.save() of a loaded document: $set of the paths the handler assigned
SaveModified(coll, doc, paths) ==
    {IF d._id = doc._id
     THEN [f \in DOMAIN d |-> IF f \in paths THEN doc[f] ELSE d[f]]
     ELSE d : d \in coll}

----------------------------------------------------------------------------
\* Request bodies

RegisterFields ==
    {"fullName", "studentNumber", "parentNumber", "password", "gradeLevel"}

\* bodies that carry all five fields: two names, two numbers, the other
\* fields differing with the name; and one whose grade level is no enum value
FullRegisterBodies ==
    {[fullName |-> n, studentNumber |-> k,
      parentNumber |-> IF n = "a" THEN "x" ELSE "y",
      password |-> IF n = "a" THEN "pw" ELSE "pw2",
      gradeLevel |-> IF n = "a" THEN "first" ELSE "all"] :
        n \in {"a", "b"}, k \in {"1", "2"}}
    \cup {[fullName |-> "b", studentNumber |-> "1", parentNumber |-> "x",
            password |-> "pw", gradeLevel |-> "fifth"]}

\* ... and bodies in which one field, or every field, is absent or empty
RegisterBodies ==
    FullRegisterBodies
    \cup {[[fullName |-> "a", studentNumber |-> "1", parentNumber |-> "x",
            password |-> "pw", gradeLevel |-> "first"] EXCEPT ![f] = v] :
              f \in RegisterFields, v \in {Undefined, ""}}
    \cup {[f \in RegisterFields |-> Undefined]}

TeacherBodies ==
    [name : {correctTeacher.fullName, "Someone else"},
     code : {correctTeacher.code, "WRONG"},
     phone : {correctTeacher.phoneNumber, "0100"}]

SupportBodies == [name : {"sam", "sue"}, code : {"K1", "K2"}]

\* SupportStaff documents are created outside this service
SeedSupport ==
    {[_id |-> "s1", type |-> "support", fullName |-> "sam", supportCode |-> "K1",
      isOnline |-> FALSE, lastActivity |-> 0],
     [_id |-> "s2", type |-> "support", fullName |-> "sam", supportCode |-> "K2",
      isOnline |-> FALSE, lastActivity |-> 0]}

----------------------------------------------------------------------------
\* POST /api/auth/register

\* the presence check of the five fields
MissingIgnoresParent(b) ==
    Falsy(b.fullName) \/ Falsy(b.studentNumber) \/ Falsy(b.password) \/ Falsy(b.gradeLevel)

MissingField(b) ==
    \/ Falsy(b.fullName) \/ Falsy(b.studentNumber) \/ Falsy(b.parentNumber)
    \/ Falsy(b.password) \/ Falsy(b.gradeLevel)

RegisterStart(p, b) ==
    /\ frames[p].pc = "idle"
    /\ IF MissingField(b)
       THEN /\ resp' = Response("register", b, 400, Message("All fields are required."))
            /\ UNCHANGED frames
       ELSE Await(p, "register", "findOne", b, NoLoc)
    /\ UNCHANGED <<students, teachers, supportStaff, db, paymentMethods,
                   nextId, now, storeUp>>

RegisterFindOne(p) ==
    /\ frames[p].h = "register" /\ frames[p].pc = "findOne"
    /\ LET b == frames[p].req IN
       IF ~storeUp
       THEN Respond(p, "register", 500, Message("generic"))
       ELSE IF FindStudent(b.studentNumber, b.fullName) # {}
       THEN Respond(p, "register", 409, Message("already exists"))
       ELSE Await(p, "register", "save", b, NoLoc)
    /\ UNCHANGED <<students, teachers, supportStaff, db, paymentMethods,
                   nextId, now, storeUp>>

RegisterSave(p) ==
    /\ frames[p].h = "register" /\ frames[p].pc = "save"
    /\ LET newStudent == NewStudent(nextId, frames[p].req) IN
       IF \/ ~storeUp
          \/ ~ValidStudent(newStudent)
          \/ UniqueViolation(students, newStudent, {"studentNumber"})
       THEN /\ Respond(p, "register", 500, Message("generic"))
            /\ UNCHANGED <<students, nextId>>
       ELSE /\ nextId <= MaxId
            /\ students' = students \cup {newStudent}
            /\ nextId' = nextId + 1
            /\ Respond(p, "register", 201, [studentId |-> newStudent._id])
    /\ UNCHANGED <<teachers, supportStaff, db, paymentMethods, now, storeUp>>

----------------------------------------------------------------------------
\* POST /api/auth/teacher-login   (no try/catch around its store calls)

CredentialsMatch(b) ==
    /\ b.name = correctTeacher.fullName
    /\ b.code = correctTeacher.code
    /\ b.phone = correctTeacher.phoneNumber

TeacherUser(t) == [user |-> [id |-> t._id, name |-> t.fullName, type |-> "teacher"]]

TeacherLoginStart(p, b) ==
    /\ frames[p].pc = "idle"
    /\ IF CredentialsMatch(b)
       THEN Await(p, "teacher-login", "findOne", b, NoLoc)
       ELSE /\ resp' = Response("teacher-login", b, 401, Message("Invalid teacher credentials."))
            /\ UNCHANGED frames
    /\ UNCHANGED <<students, teachers, supportStaff, db, paymentMethods,
                   nextId, now, storeUp>>

TeacherLoginFindOne(p, outcome) ==
    /\ frames[p].h = "teacher-login" /\ frames[p].pc = "findOne"
    /\ LET b == frames[p].req IN
       IF ~storeUp
       THEN Unhandled(p, "teacher-login", outcome)
       ELSE IF FindTeacher(b.code) # {}
       THEN Respond(p, "teacher-login", 200, TeacherUser(CHOOSE t \in FindTeacher(b.code) : TRUE))
       ELSE Await(p, "teacher-login", "save", b, NoLoc)
    /\ UNCHANGED <<students, teachers, supportStaff, db, paymentMethods,
                   nextId, now, storeUp>>

TeacherLoginSave(p, outcome) ==
    /\ frames[p].h = "teacher-login" /\ frames[p].pc = "save"
    /\ LET teacher == NewTeacher(nextId, frames[p].req) IN
       IF \/ ~storeUp
          \/ UniqueViolation(teachers, teacher, {"teacherCode", "phoneNumber"})
       THEN /\ Unhandled(p, "teacher-login", outcome)
            /\ UNCHANGED <<teachers, nextId>>
       ELSE /\ nextId <= MaxId
            /\ teachers' = teachers \cup {teacher}
            /\ nextId' = nextId + 1
            /\ Respond(p, "teacher-login", 200, TeacherUser(teacher))
    /\ UNCHANGED <<students, supportStaff, db, paymentMethods, now, storeUp>>

----------------------------------------------------------------------------
\* POST /api/auth/support-login

SupportUser(s) == [user |-> [id |-> s._id, name |-> s.fullName, type |-> "support"]]

SupportLoginStart(p, b) ==
    /\ frames[p].pc = "idle"
    /\ Await(p, "support-login", "findOne", b, NoLoc)
    /\ UNCHANGED <<students, teachers, supportStaff, db, paymentMethods,
                   nextId, now, storeUp>>

SupportLoginFindOne(p) ==
    /\ frames[p].h = "support-login" /\ frames[p].pc = "findOne"
    /\ LET b == frames[p].req
           found == FindSupport(b.name, b.code)
       IN
       IF ~storeUp
       THEN Respond(p, "support-login", 500, Message("generic"))
       ELSE IF found = {}
       THEN Respond(p, "support-login", 401, Message("Invalid support credentials."))
       ELSE LET supportUser == CHOOSE s \in found : TRUE IN
            Await(p, "support-login", "save", b,
                  [supportUser EXCEPT !.isOnline = TRUE, !.lastActivity = now])
    /\ UNCHANGED <<students, teachers, supportStaff, db, paymentMethods,
                   nextId, now, storeUp>>

SupportLoginSave(p) ==
    /\ frames[p].h = "support-login" /\ frames[p].pc = "save"
    /\ LET supportUser == frames[p].loc IN
       IF ~storeUp
       THEN /\ Respond(p, "support-login", 500, Message("generic"))
            /\ UNCHANGED supportStaff
       ELSE /\ supportStaff' = SaveModified(supportStaff, supportUser, {"isOnline", "lastActivity"})
            /\ Respond(p, "support-login", 200, SupportUser(supportUser))
    /\ UNCHANGED <<students, teachers, db, paymentMethods, nextId, now, storeUp>>

----------------------------------------------------------------------------
\* Lessons, subscriptions, general messages, books
\*
\* Of each schema the model keeps one required field and one field with a
\* default; the other fields of the schema behave like one of these two.
\* Path identifiers are well-formed ObjectIds and body values have the type
\* of their schema path.

Models == {"Lesson", "Subscription", "GeneralMessage", "Book"}

Ids == 1 .. MaxId

RequiredPaths(m) ==
    CASE m = "Lesson" -> {"title"}
      [] m = "Subscription" -> {"name"}
      [] m = "GeneralMessage" -> {"title"}
      [] m = "Book" -> {"name"}

DefaultsOf(m) ==
    CASE m = "Lesson" -> [isActive |-> TRUE]
      [] m = "Subscription" -> [isActive |-> TRUE]
      [] m = "GeneralMessage" -> [priority |-> "normal"]
      [] m = "Book" -> [availability |-> "available"]

SchemaPaths(m) == RequiredPaths(m) \cup DOMAIN DefaultsOf(m)

\* a body naming every path, and one with other values
FullBody(m) ==
    CASE m = "Lesson" -> [title |-> "Algebra I", isActive |-> TRUE]
      [] m = "Subscription" -> [name |-> "Monthly", isActive |-> TRUE]
      [] m = "GeneralMessage" -> [title |-> "Exam", priority |-> "normal"]
      [] m = "Book" -> [name |-> "Notes", availability |-> "available"]

OtherBody(m) ==
    CASE m = "Lesson" -> [title |-> "Algebra II", isActive |-> FALSE]
      [] m = "Subscription" -> [name |-> "Yearly", isActive |-> FALSE]
      [] m = "GeneralMessage" -> [title |-> "Holiday", priority |-> "urgent"]
      [] m = "Book" -> [name |-> "Workbook", availability |-> "limited"]

\* JSON bodies: the full one, and the other one cut down to one path or none
Bodies(m) ==
    {FullBody(m)}
    \cup {[f \in F |-> OtherBody(m)[f]] : F \in (SUBSET SchemaPaths(m)) \ {SchemaPaths(m)}}

LessonBodies == Bodies("Lesson")
SubscriptionBodies == Bodies("Subscription")
GeneralMessageBodies == Bodies("GeneralMessage")
BookBodies == Bodies("Book")

\* the ObjectId a new document gets
ObjectIdByCount == 1 + Cardinality(UNION {db[m] : m \in Models}) + Cardinality(paymentMethods)

NewObjectId == nextId

\* new Model(body): the body's paths over the schema defaults, and an _id
NewDocument(m, id, body) ==
    [f \in {"_id"} \cup DOMAIN body \cup DOMAIN DefaultsOf(m) |->
        IF f = "_id" THEN id
        ELSE IF f \in DOMAIN body THEN body[f]
        ELSE DefaultsOf(m)[f]]

\* validation on save: every required path has a value
Validates(m, doc) == RequiredPaths(m) \subseteq DOMAIN doc

\* Model.find({})
FindOneOnly(coll) == IF coll = {} THEN {} ELSE {CHOOSE d \in coll : TRUE}

Find(coll) == coll

\* Model.findById(id)
FindById(coll, id) == {d \in coll : d._id = id}

\* Model.findByIdAndUpdate(id, body, { new: true }): $set of the body's paths
ReplaceDocument(m, d, body) == NewDocument(m, d._id, body)

UpdateDocument(m, d, body) ==
    [f \in DOMAIN d \cup DOMAIN body |-> IF f \in DOMAIN body THEN body[f] ELSE d[f]]

\* Model.findByIdAndDelete(id)
RemoveById(coll, id) == {d \in coll : d._id # id}

Request(m, id, body) == [model |-> m, id |-> id, body |-> body]

NoId == 0

Create(m, body) ==
    LET doc == NewDocument(m, NewObjectId, body)
        req == Request(m, NoId, body)
    IN
    /\ IF ~storeUp \/ ~Validates(m, doc)
       THEN /\ resp' = Response("create", req, 500, Message("generic"))
            /\ UNCHANGED <<db, nextId>>
       ELSE /\ nextId <= MaxId
            /\ db' = [db EXCEPT ![m] = @ \cup {doc}]
            /\ nextId' = nextId + 1
            /\ resp' = Response("create", req, 201, [doc |-> doc])
    /\ UNCHANGED <<students, teachers, supportStaff, paymentMethods, now, storeUp, frames>>

List(m) ==
    LET req == Request(m, NoId, NoBody) IN
    /\ IF ~storeUp
       THEN resp' = Response("list", req, 500, Message("generic"))
       ELSE resp' = Response("list", req, 200, [docs |-> Find(db[m])])
    /\ UNCHANGED <<students, teachers, supportStaff, db, paymentMethods,
                   nextId, now, storeUp, frames>>

Update(m, id, body) ==
    LET found == FindById(db[m], id)
        req == Request(m, id, body)
    IN
    /\ IF ~storeUp
       THEN /\ resp' = Response("update", req, 500, Message("generic"))
            /\ UNCHANGED db
       ELSE IF found = {}
       THEN /\ resp' = Response("update", req, 404, Message("not found"))
            /\ UNCHANGED db
       ELSE LET d == CHOOSE x \in found : TRUE
                updated == UpdateDocument(m, d, body)
            IN /\ db' = [db EXCEPT ![m] = (@ \ {d}) \cup {updated}]
               /\ resp' = Response("update", req, 200, [doc |-> updated])
    /\ UNCHANGED <<students, teachers, supportStaff, paymentMethods,
                   nextId, now, storeUp, frames>>

Delete(m, id) ==
    LET found == FindById(db[m], id)
        req == Request(m, id, NoBody)
    IN
    /\ IF ~storeUp
       THEN /\ resp' = Response("delete", req, 500, Message("generic"))
            /\ UNCHANGED db
       ELSE IF found = {}
       THEN /\ resp' = Response("delete", req, 404, Message("not found"))
            /\ UNCHANGED db
       ELSE /\ db' = [db EXCEPT ![m] = RemoveById(@, id)]
            /\ resp' = Response("delete", req, 204, NoBody)
    /\ UNCHANGED <<students, teachers, supportStaff, paymentMethods,
                   nextId, now, storeUp, frames>>

PostLessons(body) == Create("Lesson", body)
GetLessons == List("Lesson")
PutLessons(id, body) == Update("Lesson", id, body)
DeleteLessons(id) == Delete("Lesson", id)

PostSubscriptions(body) == Create("Subscription", body)
GetSubscriptions == List("Subscription")
PutSubscriptions(id, body) == Update("Subscription", id, body)
DeleteSubscriptions(id) == Delete("Subscription", id)

PostGeneralMessages(body) == Create("GeneralMessage", body)
GetGeneralMessages == List("GeneralMessage")
DeleteGeneralMessages(id) == Delete("GeneralMessage", id)

PostBooks(body) == Create("Book", body)
GetBooks == List("Book")
PutBooks(id, body) == Update("Book", id, body)
DeleteBooks(id) == Delete("Book", id)

----------------------------------------------------------------------------
\* Payment methods

PaymentBodies ==
    [name : {Undefined, "Wallet"}, number : {"0123"}, password : {Undefined, "pw", "pw2"}]

Passwords == {Undefined, "", "pw", "pw2"}

\* the paths paymentMethodSchema marks required
PaymentRequiredPaths == {"name", "number", "password"}

\* PaymentMethod.find({}, { password: 0 })
NoProjection(coll, excluded) == coll

Project(coll, excluded) ==
    {[f \in DOMAIN d \ excluded |-> d[f]] : d \in coll}

PostPaymentMethods(b) ==
    LET newMethod == [_id |-> NewObjectId, name |-> b.name, number |-> b.number,
                      password |-> BcryptHash(b.password), createdAt |-> now]
        req == Request("PaymentMethod", NoId, b)
    IN
    \* bcrypt.hash throws on a password that is no string
    /\ IF \/ b.password = Undefined
          \/ ~storeUp
          \/ b.name = Undefined \/ b.number = Undefined
       THEN /\ resp' = Response("create", req, 500, Message("generic"))
            /\ UNCHANGED <<paymentMethods, nextId>>
       ELSE /\ nextId <= MaxId
            /\ paymentMethods' = paymentMethods \cup {newMethod}
            /\ nextId' = nextId + 1
            /\ resp' = Response("create", req, 201, [doc |-> newMethod])
    /\ UNCHANGED <<students, teachers, supportStaff, db, now, storeUp, frames>>

GetPaymentMethods ==
    LET req == Request("PaymentMethod", NoId, NoBody) IN
    /\ IF ~storeUp
       THEN resp' = Response("list", req, 500, Message("generic"))
       ELSE resp' = Response("list", req, 200,
                             [docs |-> Project(paymentMethods, {"password"})])
    /\ UNCHANGED <<students, teachers, supportStaff, db, paymentMethods,
                   nextId, now, storeUp, frames>>

DeletePaymentMethodsStart(p, id, password) ==
    /\ frames[p].pc = "idle"
    /\ Await(p, "delete", "findById",
             Request("PaymentMethod", id, [password |-> password]), NoLoc)
    /\ UNCHANGED <<students, teachers, supportStaff, db, paymentMethods,
                   nextId, now, storeUp>>

DeletePaymentMethodsFindById(p) ==
    /\ frames[p].h = "delete" /\ frames[p].pc = "findById"
    /\ LET req == frames[p].req
           found == FindById(paymentMethods, req.id)
       IN
       IF ~storeUp
       THEN Respond(p, "delete", 500, Message("generic"))
       ELSE IF found = {}
       THEN Respond(p, "delete", 404, Message("not found"))
       \* bcrypt.compare throws on a password that is no string
       ELSE IF req.body.password = Undefined
       THEN Respond(p, "delete", 500, Message("generic"))
       ELSE IF ~BcryptCompare(req.body.password, (CHOOSE d \in found : TRUE).password)
       THEN Respond(p, "delete", 401, Message("Incorrect control password."))
       ELSE Await(p, "delete", "findByIdAndDelete", req, NoLoc)
    /\ UNCHANGED <<students, teachers, supportStaff, db, paymentMethods,
                   nextId, now, storeUp>>

DeletePaymentMethodsFindByIdAndDelete(p) ==
    /\ frames[p].h = "delete" /\ frames[p].pc = "findByIdAndDelete"
    /\ IF ~storeUp
       THEN /\ Respond(p, "delete", 500, Message("generic"))
            /\ UNCHANGED paymentMethods
       ELSE /\ paymentMethods' = RemoveById(paymentMethods, frames[p].req.id)
            /\ Respond(p, "delete", 204, NoBody)
    /\ UNCHANGED <<students, teachers, supportStaff, db, nextId, now, storeUp>>

----------------------------------------------------------------------------
\* Environment

\* time passes
Tick ==
    /\ now < MaxClock
    /\ now' = now + 1
    /\ UNCHANGED <<students, teachers, supportStaff, db, paymentMethods,
                   nextId, storeUp, frames, resp>>

\* the connection to the store is lost / comes back
StoreDown ==
    /\ storeUp
    /\ storeUp' = FALSE
    /\ UNCHANGED <<students, teachers, supportStaff, db, paymentMethods,
                   nextId, now, frames, resp>>

StoreBack ==
    /\ ~storeUp
    /\ storeUp' = TRUE
    /\ UNCHANGED <<students, teachers, supportStaff, db, paymentMethods,
                   nextId, now, frames, resp>>

----------------------------------------------------------------------------
\* Specifications

Init ==
    /\ students = {}
    /\ teachers = {}
    /\ supportStaff = {}
    /\ db = [m \in Models |-> {}]
    /\ paymentMethods = {}
    /\ nextId = 1
    /\ now = 1
    /\ storeUp = TRUE
    /\ frames = [p \in Procs |-> Idle]
    /\ resp = Response("none", NoLoc, 0, NoBody)

NextAuth ==
    \/ \E p \in Procs : \E b \in RegisterBodies : RegisterStart(p, b)
    \/ \E p \in Procs : RegisterFindOne(p)
    \/ \E p \in Procs : RegisterSave(p)
    \/ \E p \in Procs : \E b \in TeacherBodies : TeacherLoginStart(p, b)
    \/ \E p \in Procs : \E o \in UnhandledOutcomes : TeacherLoginFindOne(p, o)
    \/ \E p \in Procs : \E o \in UnhandledOutcomes : TeacherLoginSave(p, o)

\* registration and teacher login against a store that answers
SpecAuth == Init /\ [][NextAuth]_vars

\* support login against a store that answers, seeded with any support staff
InitSupport ==
    /\ students = {}
    /\ teachers = {}
    /\ supportStaff \in SUBSET SeedSupport
    /\ db = [m \in Models |-> {}]
    /\ paymentMethods = {}
    /\ nextId = 1
    /\ now = 1
    /\ storeUp = TRUE
    /\ frames = [p \in Procs |-> Idle]
    /\ resp = Response("none", NoLoc, 0, NoBody)

NextSupport ==
    \/ \E p \in Procs : \E b \in SupportBodies : SupportLoginStart(p, b)
    \/ \E p \in Procs : SupportLoginFindOne(p)
    \/ \E p \in Procs : SupportLoginSave(p)
    \/ Tick

SpecSupport == InitSupport /\ [][NextSupport]_vars

NextCrud ==
    \/ \E b \in LessonBodies : PostLessons(b)
    \/ GetLessons
    \/ \E id \in Ids : \E b \in LessonBodies : PutLessons(id, b)
    \/ \E id \in Ids : DeleteLessons(id)
    \/ \E b \in SubscriptionBodies : PostSubscriptions(b)
    \/ GetSubscriptions
    \/ \E id \in Ids : \E b \in SubscriptionBodies : PutSubscriptions(id, b)
    \/ \E id \in Ids : DeleteSubscriptions(id)
    \/ \E b \in GeneralMessageBodies : PostGeneralMessages(b)
    \/ GetGeneralMessages
    \/ \E id \in Ids : DeleteGeneralMessages(id)
    \/ \E b \in BookBodies : PostBooks(b)
    \/ GetBooks
    \/ \E id \in Ids : \E b \in BookBodies : PutBooks(id, b)
    \/ \E id \in Ids : DeleteBooks(id)

\* the catalogue handlers against a store that answers
SpecCrud == Init /\ [][NextCrud]_vars

NextPay ==
    \/ \E b \in PaymentBodies : PostPaymentMethods(b)
    \/ GetPaymentMethods
    \/ \E p \in Procs : \E id \in Ids : \E pw \in Passwords :
          DeletePaymentMethodsStart(p, id, pw)
    \/ \E p \in Procs : DeletePaymentMethodsFindById(p)
    \/ \E p \in Procs : DeletePaymentMethodsFindByIdAndDelete(p)

\* the payment-method handlers against a store that answers
SpecPay == Init /\ [][NextPay]_vars

NextCreateList ==
    \/ \E b \in LessonBodies : PostLessons(b)
    \/ GetLessons
    \/ \E b \in SubscriptionBodies : PostSubscriptions(b)
    \/ GetSubscriptions
    \/ \E b \in GeneralMessageBodies : PostGeneralMessages(b)
    \/ GetGeneralMessages
    \/ \E b \in BookBodies : PostBooks(b)
    \/ GetBooks
    \/ \E b \in PaymentBodies : PostPaymentMethods(b)
    \/ GetPaymentMethods

\* creating and listing only, from empty collections
SpecCreateList == Init /\ [][NextCreateList]_vars

NextDelete ==
    \/ \E b \in LessonBodies : PostLessons(b)
    \/ \E id \in Ids : DeleteLessons(id)
    \/ \E b \in SubscriptionBodies : PostSubscriptions(b)
    \/ \E id \in Ids : DeleteSubscriptions(id)
    \/ \E b \in GeneralMessageBodies : PostGeneralMessages(b)
    \/ \E id \in Ids : DeleteGeneralMessages(id)
    \/ \E b \in BookBodies : PostBooks(b)
    \/ \E id \in Ids : DeleteBooks(id)
    \/ \E b \in PaymentBodies : PostPaymentMethods(b)
    \/ \E p \in Procs : \E id \in Ids : \E pw \in Passwords :
          DeletePaymentMethodsStart(p, id, pw)
    \/ \E p \in Procs : DeletePaymentMethodsFindById(p)
    \/ \E p \in Procs : DeletePaymentMethodsFindByIdAndDelete(p)

\* creating and deleting, catalogue and payment methods, against a store that
\* answers
SpecDelete == Init /\ [][NextDelete]_vars

NextFail == NextAuth \/ StoreDown \/ StoreBack

\* registration and teacher login against a store that may stop answering
SpecFail == Init /\ [][NextFail]_vars

Next == NextAuth \/ NextSupport \/ NextCrud \/ NextPay \/ StoreDown \/ StoreBack

\* The whole service.  The handlers of one group (authentication, support
\* login, catalogue, payment methods) read and write only that group's
\* collections, so the properties below are checked under the group's own
\* specification, whose state space TLC can exhaust.
Spec == InitSupport /\ [][Next]_vars

----------------------------------------------------------------------------
\* Properties

\* the step in which connection p's handler h leaves its await at pc
Leaves(p, h, pc) ==
    /\ frames[p].h = h /\ frames[p].pc = pc
    /\ frames'[p].pc # pc

\* the step sends a response of handler h
Sends(h) == resp' # resp /\ resp'.h = h

\* C1: a register request carrying all five fields, looked up in a store that
\* holds a Student with its student number, is answered 409 and adds no Student,
\* whatever its other fields are; and Students, once stored, stay as they are,
\* so a number present when the request arrives is present at its lookup.
C1_DuplicateNumberIs409 ==
    [][/\ \A p \in Procs :
            (/\ Leaves(p, "register", "findOne")
             /\ \E s \in students : s.studentNumber = frames[p].req.studentNumber)
            => /\ resp'.h = "register" /\ resp'.req = frames[p].req
               /\ resp'.status = 409
               /\ frames'[p].pc = "idle"
               /\ students' = students
       /\ students \subseteq students']_vars

C1_Witness ==
    /\ resp.h = "register" /\ resp.status = 409
    /\ \E s \in students :
          /\ s.studentNumber = resp.req.studentNumber
          /\ s.fullName # resp.req.fullName
          /\ s.parentNumber # resp.req.parentNumber
          /\ s.gradeLevel # resp.req.gradeLevel

OneFieldMissing(b) == \E f \in RegisterFields : b[f] \in {Undefined, ""}

\* C2: a register request in which one of the five fields is absent or empty
\* never reaches the store: it is answered 400 in the step that receives it,
\* and that step leaves the Student documents as they were.
C2_MissingFieldIs400 ==
    [][/\ \A p \in Procs :
            (frames[p].pc = "idle" /\ frames'[p].h = "register")
            => ~OneFieldMissing(frames'[p].req)
       /\ (Sends("register") /\ OneFieldMissing(resp'.req))
            => (resp'.status = 400 /\ students' = students /\ frames' = frames)]_vars

C2_Witness ==
    /\ resp.h = "register" /\ resp.status = 400
    /\ resp.req.parentNumber = Undefined
    /\ \A f \in RegisterFields \ {"parentNumber"} : resp.req[f] \notin {Undefined, ""}
    /\ students # {}

HardcodedTriple(b) ==
    b.name = "Mahmoud only" /\ b.code = "HHDV/58HR" /\ b.phone = "01050747978"

\* C3: teacher login is answered 200 only for the hardcoded triple, and then a
\* Teacher document exists; a request that differs from the triple is answered
\* 401 without touching the Teacher documents; a save into an empty Teacher
\* collection leaves exactly one document; and the store never holds two
\* Teacher documents, also when two matching requests are in flight at once.
C3_TeacherLogin ==
    /\ [](/\ Cardinality(teachers) <= 1
          /\ (resp.h = "teacher-login" /\ resp.status = 200)
               => (HardcodedTriple(resp.req) /\ Cardinality(teachers) = 1)
          /\ (resp.h = "teacher-login" /\ ~HardcodedTriple(resp.req))
               => resp.status = 401
          /\ \A p \in Procs :
               frames[p].h = "teacher-login" => HardcodedTriple(frames[p].req))
    /\ [][/\ (Sends("teacher-login") /\ ~HardcodedTriple(resp'.req))
               => teachers' = teachers
          /\ \A p \in Procs :
               (Leaves(p, "teacher-login", "save") /\ teachers = {})
               => /\ Cardinality(teachers') = 1
                  /\ resp'.h = "teacher-login" /\ resp'.status = 200]_vars

\* two matching requests raced: one created the Teacher, the other's save was
\* rejected by the unique index
C3_Witness ==
    /\ Cardinality(teachers) = 1
    /\ \E p \in Procs : frames[p].h = "teacher-login" /\ frames[p].pc = "hung"
    /\ resp.h = "teacher-login" /\ resp.status = 200

\* C4: deleting an existing payment method: a supplied password that is not the
\* one the stored hash was made from is answered 401 and the documents stay as
\* they are; a supplied password that is goes on to the delete call, which
\* removes the document and is answered 204 with no body.
C4_PaymentMethodDelete ==
    [][\A p \in Procs :
         /\ (/\ Leaves(p, "delete", "findById")
             /\ frames[p].req.body.password # Undefined
             /\ \E d \in paymentMethods : d._id = frames[p].req.id)
            => /\ paymentMethods' = paymentMethods
               /\ \A d \in paymentMethods :
                     d._id = frames[p].req.id =>
                       IF d.password = BcryptHash(frames[p].req.body.password)
                       THEN /\ frames'[p].h = "delete"
                            /\ frames'[p].pc = "findByIdAndDelete"
                            /\ frames'[p].req = frames[p].req
                       ELSE /\ resp'.h = "delete" /\ resp'.req = frames[p].req
                            /\ resp'.status = 401
                            /\ frames'[p].pc = "idle"
         /\ Leaves(p, "delete", "findByIdAndDelete")
            => /\ resp'.h = "delete" /\ resp'.req = frames[p].req
               /\ resp'.status = 204 /\ resp'.out = NoBody
               /\ paymentMethods' = {d \in paymentMethods : d._id # frames[p].req.id}]_vars

\* a wrong password was answered 401 and the document is still there, after
\* another document was deleted with its password
C4_Witness ==
    /\ resp.h = "delete" /\ resp.status = 401
    /\ \E d \in paymentMethods :
          d._id = resp.req.id /\ d.password # BcryptHash(resp.req.body.password)
    /\ nextId > MaxId /\ Cardinality(paymentMethods) = MaxId - 1

\* C5: no document of a payment-method listing carries the password path.
C5_ListHidesPassword ==
    (resp.h = "list" /\ resp.req.model = "PaymentMethod" /\ resp.status = 200)
    => \A d \in resp.out.docs : "password" \notin DOMAIN d

C5_Witness ==
    /\ resp.h = "list" /\ resp.req.model = "PaymentMethod" /\ resp.status = 200
    /\ Cardinality(resp.out.docs) = MaxId
    /\ \A d \in paymentMethods : "password" \in DOMAIN d
    /\ {d._id : d \in resp.out.docs} = {d._id : d \in paymentMethods}

\* the collection of a model
Coll(m) == IF m = "PaymentMethod" THEN paymentMethods ELSE db[m]

CollAfter(m) == IF m = "PaymentMethod" THEN paymentMethods' ELSE db'[m]

IdsOf(coll) == {d._id : d \in coll}

AllDocuments == UNION {db[m] : m \in Models} \cup paymentMethods

Merged(d, body) == [f \in DOMAIN d |-> IF f \in DOMAIN body THEN body[f] ELSE d[f]]

C9_StoreFailureIs500 ==
    [][\A p \in Procs :
         (~storeUp /\ frames[p].pc \in {"findOne", "save"} /\ frames'[p] # frames[p])
         => /\ resp'.req = frames[p].req /\ resp'.status = 500
            /\ frames'[p].pc = "idle"]_vars

\* C10: a support login whose lookup finds a SupportStaff document with the
\* submitted name and code goes on to save it and is answered 200; the save
\* sets that document's isOnline to true and its lastActivity to the time the
\* handler read after the lookup, and changes nothing else.  A lookup that
\* finds none is answered 401 and no document is changed.
C10_SupportLogin ==
    [][\A p \in Procs :
         /\ Leaves(p, "support-login", "findOne")
            => /\ UNCHANGED <<students, teachers, supportStaff, db, paymentMethods>>
               /\ IF \E s \in supportStaff : /\ s.fullName = frames[p].req.name
                                              /\ s.supportCode = frames[p].req.code
                  THEN /\ frames'[p].h = "support-login" /\ frames'[p].pc = "save"
                       /\ frames'[p].req = frames[p].req
                       /\ frames'[p].loc.fullName = frames[p].req.name
                       /\ frames'[p].loc.supportCode = frames[p].req.code
                       /\ frames'[p].loc.lastActivity = now
                  ELSE /\ resp'.h = "support-login" /\ resp'.req = frames[p].req
                       /\ resp'.status = 401
         /\ Leaves(p, "support-login", "save")
            => /\ UNCHANGED <<students, teachers, db, paymentMethods>>
               /\ resp'.h = "support-login" /\ resp'.req = frames[p].req
               /\ resp'.status = 200
               /\ resp'.out.user.id = frames[p].loc._id
               /\ {s._id : s \in supportStaff'} = {s._id : s \in supportStaff}
               /\ \A s \in supportStaff : \A t \in supportStaff' :
                     s._id = t._id =>
                       IF s._id = frames[p].loc._id
                       THEN /\ t.isOnline = TRUE
                            /\ t.lastActivity = frames[p].loc.lastActivity
                            /\ \A f \in DOMAIN s \ {"isOnline", "lastActivity"} :
                                  t[f] = s[f]
                       ELSE t = s]_vars

C10_Witness ==
    /\ resp.h = "support-login" /\ resp.status = 200
    /\ \E s \in supportStaff :
          /\ s._id = resp.out.user.id
          /\ s.fullName = resp.req.name /\ s.supportCode = resp.req.code
          /\ s.isOnline /\ s.lastActivity = MaxClock
    /\ \E s \in supportStaff : ~s.isOnline /\ s.lastActivity = 0

\* the body of a create request leaves out a path its schema marks required
OmitsRequired(req) ==
    IF req.model = "PaymentMethod"
    THEN \E f \in PaymentRequiredPaths : req.body[f] = Undefined
    ELSE ~(RequiredPaths(req.model) \subseteq DOMAIN req.body)

\* C11: a create request whose body omits a required field is answered 400
\* and no document is created.
C11_MissingRequiredIs400 ==
    [][(Sends("create") /\ OmitsRequired(resp'.req))
         => /\ resp'.status = 400
            /\ UNCHANGED <<db, paymentMethods>>]_vars

\* C12: whatever the interleaving of register and teacher-login requests, no
\* two stored Students have the same student number, and no two stored
\* Teachers have the same teacher code or the same phone number.
C12_UniqueKeys ==
    /\ \A s, t \in students : s.studentNumber = t.studentNumber => s = t
    /\ \A s, t \in teachers :
          (s.teacherCode = t.teacherCode \/ s.phoneNumber = t.phoneNumber) => s = t

\* two registers with one student number and different names raced past the
\* lookup: the second save was rejected by the unique index; a Teacher exists
C12_Witness ==
    /\ resp.h = "register" /\ resp.status = 500
    /\ resp.req.gradeLevel \in GradeLevels
    /\ \E s \in students :
          s.studentNumber = resp.req.studentNumber /\ s.fullName # resp.req.fullName
    /\ teachers # {}

\* C13: whatever the interleaving of register requests, no two stored Students
\* have the same full name.
C13_UniqueFullName ==
    \A s, t \in students : s.fullName = t.fullName => s = t

\* C14: of the DELETE requests addressed to one document, in any interleaving,
\* exactly one is answered 204, in the step that removes the document: a delete
\* that reaches the store when the document is there removes it and is answered
\* 204, one that reaches it when the document is gone is answered 404 (a
\* payment-method delete with a wrong password 401), and no identifier is
\* handed out again.
C14_OneDeleteIs204 ==
    [][/\ \A p \in Procs :
            Leaves(p, "delete", "findByIdAndDelete")
            => /\ resp'.h = "delete" /\ resp'.req = frames[p].req
               /\ IF frames[p].req.id \in IdsOf(paymentMethods)
                  THEN /\ resp'.status = 204
                       /\ frames[p].req.id \notin IdsOf(paymentMethods')
                  ELSE /\ resp'.status = 404
                       /\ paymentMethods' = paymentMethods
       /\ \A p \in Procs :
            Leaves(p, "delete", "findById")
            => IF frames[p].req.id \notin IdsOf(paymentMethods)
               THEN resp'.req = frames[p].req /\ resp'.status = 404
               ELSE \/ frames'[p].pc = "findByIdAndDelete"
                    \/ resp'.req = frames[p].req /\ resp'.status \in {401, 500}
       /\ (Sends("delete") /\ resp'.req.model \in Models)
            => IF resp'.req.id \in IdsOf(db[resp'.req.model])
               THEN /\ resp'.status = 204
                    /\ resp'.req.id \notin IdsOf(db'[resp'.req.model])
               ELSE resp'.status = 404 /\ db' = db
       /\ \A d \in UNION {db'[m] : m \in Models} \cup paymentMethods' :
            d._id < nextId => d._id \in IdsOf(AllDocuments)]_vars

====
